---- MODULE Spec2Model ----
(***************************************************************************)
(* Professional Communication Assistant (src/app.py): one run of the       *)
(* Streamlit script.  A text, the rendered HTML included, is a sequence of  *)
(* Unicode code points (Python's ord of each character).                   *)
(* Indices of the diff are Python's: 0-based, half-open ranges.            *)
(***************************************************************************)
EXTENDS Integers, Sequences, FiniteSets, TLC

VARIABLES
  env,                \* os.environ of the process
  pc,                 \* position of the script
  configured,         \* genai.configure / GenerativeModel have run
  shown,              \* what the page shows: error, form, warning, panel, legend
  style_choice,       \* st.selectbox value
  user_input,         \* st.text_area value
  pressed,            \* st.button("Polish") returned True
  polished_text,      \* result of the polish call
  orig_sentences,
  polished_sentences,
  opcodes,            \* matcher.get_opcodes()
  changed_sentences,
  categories,         \* dict: trimmed sentence text -> category
  idx,                \* position of the classification loop (1-based)
  polished_html,
  calls,              \* prompts handed to model.generate_content, in order
  responses,          \* texts the LLM returned, in order
  outstanding,        \* calls issued and not yet returned
  nfailed             \* LLM calls that raised

vars == <<env, pc, configured, shown, style_choice, user_input, pressed,
          polished_text, orig_sentences, polished_sentences, opcodes,
          changed_sentences, categories, idx, polished_html, calls,
          responses, outstanding, nfailed>>

----------------------------------------------------------------------------
(* Bounds of the model *)

MaxLen == 5

MaxSeq == 3

MaxDraftSents == 2

MaxPolishedSents == 3

MaxHlSents == 3

----------------------------------------------------------------------------
(* Python str primitives (CPython 3.11, Unicode 14.0.0) *)

\* The code points str.isspace(), str.strip() and the regex \s take as
\* whitespace: U+0009-U+000D, U+001C-U+0020, U+0085, U+00A0, U+1680,
\* U+2000-U+200A, U+2028, U+2029, U+202F, U+205F, U+3000
Whitespace ==
  (9..13) \cup (28..32) \cup {133, 160, 5760} \cup (8192..8202)
  \cup {8232, 8233, 8239, 8287, 12288}

IsSpace(c) == c \in Whitespace

\* The one-character lower-case mappings above U+007F, as runs
\* <<first, last, step, delta>>: c in first..last with (c - first) a multiple
\* of step is mapped to c + delta
LowerRuns == {
  <<192,214,1,32>>, <<216,222,1,32>>, <<256,302,2,1>>, <<306,310,2,1>>,
  <<313,327,2,1>>, <<330,374,2,1>>, <<376,376,1,-121>>, <<377,381,2,1>>,
  <<385,385,1,210>>, <<386,388,2,1>>, <<390,390,1,206>>, <<391,391,1,1>>,
  <<393,394,1,205>>, <<395,395,1,1>>, <<398,398,1,79>>, <<399,399,1,202>>,
  <<400,400,1,203>>, <<401,401,1,1>>, <<403,403,1,205>>, <<404,404,1,207>>,
  <<406,406,1,211>>, <<407,407,1,209>>, <<408,408,1,1>>, <<412,412,1,211>>,
  <<413,413,1,213>>, <<415,415,1,214>>, <<416,420,2,1>>, <<422,422,1,218>>,
  <<423,423,1,1>>, <<425,425,1,218>>, <<428,428,1,1>>, <<430,430,1,218>>,
  <<431,431,1,1>>, <<433,434,1,217>>, <<435,437,2,1>>, <<439,439,1,219>>,
  <<440,440,1,1>>, <<444,444,1,1>>, <<452,452,1,2>>, <<453,453,1,1>>,
  <<455,455,1,2>>, <<456,456,1,1>>, <<458,458,1,2>>, <<459,475,2,1>>,
  <<478,494,2,1>>, <<497,497,1,2>>, <<498,500,2,1>>, <<502,502,1,-97>>,
  <<503,503,1,-56>>, <<504,542,2,1>>, <<544,544,1,-130>>, <<546,562,2,1>>,
  <<570,570,1,10795>>, <<571,571,1,1>>, <<573,573,1,-163>>,
  <<574,574,1,10792>>, <<577,577,1,1>>, <<579,579,1,-195>>,
  <<580,580,1,69>>, <<581,581,1,71>>, <<582,590,2,1>>, <<880,882,2,1>>,
  <<886,886,1,1>>, <<895,895,1,116>>, <<902,902,1,38>>, <<904,906,1,37>>,
  <<908,908,1,64>>, <<910,911,1,63>>, <<913,929,1,32>>, <<932,939,1,32>>,
  <<975,975,1,8>>, <<984,1006,2,1>>, <<1012,1012,1,-60>>, <<1015,1015,1,1>>,
  <<1017,1017,1,-7>>, <<1018,1018,1,1>>, <<1021,1023,1,-130>>,
  <<1024,1039,1,80>>, <<1040,1071,1,32>>, <<1120,1152,2,1>>,
  <<1162,1214,2,1>>, <<1216,1216,1,15>>, <<1217,1229,2,1>>,
  <<1232,1326,2,1>>, <<1329,1366,1,48>>, <<4256,4293,1,7264>>,
  <<4295,4295,1,7264>>, <<4301,4301,1,7264>>, <<5024,5103,1,38864>>,
  <<5104,5109,1,8>>, <<7312,7354,1,-3008>>, <<7357,7359,1,-3008>>,
  <<7680,7828,2,1>>, <<7838,7838,1,-7615>>, <<7840,7934,2,1>>,
  <<7944,7951,1,-8>>, <<7960,7965,1,-8>>, <<7976,7983,1,-8>>,
  <<7992,7999,1,-8>>, <<8008,8013,1,-8>>, <<8025,8031,2,-8>>,
  <<8040,8047,1,-8>>, <<8072,8079,1,-8>>, <<8088,8095,1,-8>>,
  <<8104,8111,1,-8>>, <<8120,8121,1,-8>>, <<8122,8123,1,-74>>,
  <<8124,8124,1,-9>>, <<8136,8139,1,-86>>, <<8140,8140,1,-9>>,
  <<8152,8153,1,-8>>, <<8154,8155,1,-100>>, <<8168,8169,1,-8>>,
  <<8170,8171,1,-112>>, <<8172,8172,1,-7>>, <<8184,8185,1,-128>>,
  <<8186,8187,1,-126>>, <<8188,8188,1,-9>>, <<8486,8486,1,-7517>>,
  <<8490,8490,1,-8383>>, <<8491,8491,1,-8262>>, <<8498,8498,1,28>>,
  <<8544,8559,1,16>>, <<8579,8579,1,1>>, <<9398,9423,1,26>>,
  <<11264,11311,1,48>>, <<11360,11360,1,1>>, <<11362,11362,1,-10743>>,
  <<11363,11363,1,-3814>>, <<11364,11364,1,-10727>>, <<11367,11371,2,1>>,
  <<11373,11373,1,-10780>>, <<11374,11374,1,-10749>>,
  <<11375,11375,1,-10783>>, <<11376,11376,1,-10782>>, <<11378,11378,1,1>>,
  <<11381,11381,1,1>>, <<11390,11391,1,-10815>>, <<11392,11490,2,1>>,
  <<11499,11501,2,1>>, <<11506,11506,1,1>>, <<42560,42604,2,1>>,
  <<42624,42650,2,1>>, <<42786,42798,2,1>>, <<42802,42862,2,1>>,
  <<42873,42875,2,1>>, <<42877,42877,1,-35332>>, <<42878,42886,2,1>>,
  <<42891,42891,1,1>>, <<42893,42893,1,-42280>>, <<42896,42898,2,1>>,
  <<42902,42920,2,1>>, <<42922,42922,1,-42308>>, <<42923,42923,1,-42319>>,
  <<42924,42924,1,-42315>>, <<42925,42925,1,-42305>>,
  <<42926,42926,1,-42308>>, <<42928,42928,1,-42258>>,
  <<42929,42929,1,-42282>>, <<42930,42930,1,-42261>>, <<42931,42931,1,928>>,
  <<42932,42946,2,1>>, <<42948,42948,1,-48>>, <<42949,42949,1,-42307>>,
  <<42950,42950,1,-35384>>, <<42951,42953,2,1>>, <<42960,42960,1,1>>,
  <<42966,42968,2,1>>, <<42997,42997,1,1>>, <<65313,65338,1,32>>,
  <<66560,66599,1,40>>, <<66736,66771,1,40>>, <<66928,66964,2,39>>,
  <<66929,66938,1,39>>, <<66940,66954,1,39>>, <<66956,66962,1,39>>,
  <<66964,66965,1,39>>, <<68736,68786,1,64>>, <<71840,71871,1,32>>,
  <<93760,93791,1,32>>, <<125184,125217,1,34>> }

\* Case_Ignorable code points above U+007F, as ranges <<first, last>>
CaseIgnorableRanges == {
  <<168,168>>, <<173,173>>, <<175,175>>, <<180,180>>, <<183,184>>,
  <<688,879>>, <<884,885>>, <<890,890>>, <<900,901>>, <<903,903>>,
  <<1155,1161>>, <<1369,1369>>, <<1375,1375>>, <<1425,1469>>, <<1471,1471>>,
  <<1473,1474>>, <<1476,1477>>, <<1479,1479>>, <<1524,1524>>, <<1536,1541>>,
  <<1552,1562>>, <<1564,1564>>, <<1600,1600>>, <<1611,1631>>, <<1648,1648>>,
  <<1750,1757>>, <<1759,1768>>, <<1770,1773>>, <<1807,1807>>, <<1809,1809>>,
  <<1840,1866>>, <<1958,1968>>, <<2027,2037>>, <<2042,2042>>, <<2045,2045>>,
  <<2070,2093>>, <<2137,2139>>, <<2184,2184>>, <<2192,2193>>, <<2200,2207>>,
  <<2249,2306>>, <<2362,2362>>, <<2364,2364>>, <<2369,2376>>, <<2381,2381>>,
  <<2385,2391>>, <<2402,2403>>, <<2417,2417>>, <<2433,2433>>, <<2492,2492>>,
  <<2497,2500>>, <<2509,2509>>, <<2530,2531>>, <<2558,2558>>, <<2561,2562>>,
  <<2620,2620>>, <<2625,2626>>, <<2631,2632>>, <<2635,2637>>, <<2641,2641>>,
  <<2672,2673>>, <<2677,2677>>, <<2689,2690>>, <<2748,2748>>, <<2753,2757>>,
  <<2759,2760>>, <<2765,2765>>, <<2786,2787>>, <<2810,2815>>, <<2817,2817>>,
  <<2876,2876>>, <<2879,2879>>, <<2881,2884>>, <<2893,2893>>, <<2901,2902>>,
  <<2914,2915>>, <<2946,2946>>, <<3008,3008>>, <<3021,3021>>, <<3072,3072>>,
  <<3076,3076>>, <<3132,3132>>, <<3134,3136>>, <<3142,3144>>, <<3146,3149>>,
  <<3157,3158>>, <<3170,3171>>, <<3201,3201>>, <<3260,3260>>, <<3263,3263>>,
  <<3270,3270>>, <<3276,3277>>, <<3298,3299>>, <<3328,3329>>, <<3387,3388>>,
  <<3393,3396>>, <<3405,3405>>, <<3426,3427>>, <<3457,3457>>, <<3530,3530>>,
  <<3538,3540>>, <<3542,3542>>, <<3633,3633>>, <<3636,3642>>, <<3654,3662>>,
  <<3761,3761>>, <<3764,3772>>, <<3782,3782>>, <<3784,3789>>, <<3864,3865>>,
  <<3893,3893>>, <<3895,3895>>, <<3897,3897>>, <<3953,3966>>, <<3968,3972>>,
  <<3974,3975>>, <<3981,3991>>, <<3993,4028>>, <<4038,4038>>, <<4141,4144>>,
  <<4146,4151>>, <<4153,4154>>, <<4157,4158>>, <<4184,4185>>, <<4190,4192>>,
  <<4209,4212>>, <<4226,4226>>, <<4229,4230>>, <<4237,4237>>, <<4253,4253>>,
  <<4348,4348>>, <<4957,4959>>, <<5906,5908>>, <<5938,5939>>, <<5970,5971>>,
  <<6002,6003>>, <<6068,6069>>, <<6071,6077>>, <<6086,6086>>, <<6089,6099>>,
  <<6103,6103>>, <<6109,6109>>, <<6155,6159>>, <<6211,6211>>, <<6277,6278>>,
  <<6313,6313>>, <<6432,6434>>, <<6439,6440>>, <<6450,6450>>, <<6457,6459>>,
  <<6679,6680>>, <<6683,6683>>, <<6742,6742>>, <<6744,6750>>, <<6752,6752>>,
  <<6754,6754>>, <<6757,6764>>, <<6771,6780>>, <<6783,6783>>, <<6823,6823>>,
  <<6832,6862>>, <<6912,6915>>, <<6964,6964>>, <<6966,6970>>, <<6972,6972>>,
  <<6978,6978>>, <<7019,7027>>, <<7040,7041>>, <<7074,7077>>, <<7080,7081>>,
  <<7083,7085>>, <<7142,7142>>, <<7144,7145>>, <<7149,7149>>, <<7151,7153>>,
  <<7212,7219>>, <<7222,7223>>, <<7288,7293>>, <<7376,7378>>, <<7380,7392>>,
  <<7394,7400>>, <<7405,7405>>, <<7412,7412>>, <<7416,7417>>, <<7468,7530>>,
  <<7544,7544>>, <<7579,7679>>, <<8125,8125>>, <<8127,8129>>, <<8141,8143>>,
  <<8157,8159>>, <<8173,8175>>, <<8189,8190>>, <<8203,8207>>, <<8216,8217>>,
  <<8228,8228>>, <<8231,8231>>, <<8234,8238>>, <<8288,8292>>, <<8294,8303>>,
  <<8305,8305>>, <<8319,8319>>, <<8336,8348>>, <<8400,8432>>,
  <<11388,11389>>, <<11503,11505>>, <<11631,11631>>, <<11647,11647>>,
  <<11744,11775>>, <<11823,11823>>, <<12293,12293>>, <<12330,12333>>,
  <<12337,12341>>, <<12347,12347>>, <<12441,12446>>, <<12540,12542>>,
  <<40981,40981>>, <<42232,42237>>, <<42508,42508>>, <<42607,42610>>,
  <<42612,42621>>, <<42623,42623>>, <<42652,42655>>, <<42736,42737>>,
  <<42752,42785>>, <<42864,42864>>, <<42888,42890>>, <<42994,42996>>,
  <<43000,43001>>, <<43010,43010>>, <<43014,43014>>, <<43019,43019>>,
  <<43045,43046>>, <<43052,43052>>, <<43204,43205>>, <<43232,43249>>,
  <<43263,43263>>, <<43302,43309>>, <<43335,43345>>, <<43392,43394>>,
  <<43443,43443>>, <<43446,43449>>, <<43452,43453>>, <<43471,43471>>,
  <<43493,43494>>, <<43561,43566>>, <<43569,43570>>, <<43573,43574>>,
  <<43587,43587>>, <<43596,43596>>, <<43632,43632>>, <<43644,43644>>,
  <<43696,43696>>, <<43698,43700>>, <<43703,43704>>, <<43710,43711>>,
  <<43713,43713>>, <<43741,43741>>, <<43756,43757>>, <<43763,43764>>,
  <<43766,43766>>, <<43867,43871>>, <<43881,43883>>, <<44005,44005>>,
  <<44008,44008>>, <<44013,44013>>, <<64286,64286>>, <<64434,64450>>,
  <<65024,65039>>, <<65043,65043>>, <<65056,65071>>, <<65106,65106>>,
  <<65109,65109>>, <<65279,65279>>, <<65287,65287>>, <<65294,65294>>,
  <<65306,65306>>, <<65342,65342>>, <<65344,65344>>, <<65392,65392>>,
  <<65438,65439>>, <<65507,65507>>, <<65529,65531>>, <<66045,66045>>,
  <<66272,66272>>, <<66422,66426>>, <<67456,67461>>, <<67463,67504>>,
  <<67506,67514>>, <<68097,68099>>, <<68101,68102>>, <<68108,68111>>,
  <<68152,68154>>, <<68159,68159>>, <<68325,68326>>, <<68900,68903>>,
  <<69291,69292>>, <<69446,69456>>, <<69506,69509>>, <<69633,69633>>,
  <<69688,69702>>, <<69744,69744>>, <<69747,69748>>, <<69759,69761>>,
  <<69811,69814>>, <<69817,69818>>, <<69821,69821>>, <<69826,69826>>,
  <<69837,69837>>, <<69888,69890>>, <<69927,69931>>, <<69933,69940>>,
  <<70003,70003>>, <<70016,70017>>, <<70070,70078>>, <<70089,70092>>,
  <<70095,70095>>, <<70191,70193>>, <<70196,70196>>, <<70198,70199>>,
  <<70206,70206>>, <<70367,70367>>, <<70371,70378>>, <<70400,70401>>,
  <<70459,70460>>, <<70464,70464>>, <<70502,70508>>, <<70512,70516>>,
  <<70712,70719>>, <<70722,70724>>, <<70726,70726>>, <<70750,70750>>,
  <<70835,70840>>, <<70842,70842>>, <<70847,70848>>, <<70850,70851>>,
  <<71090,71093>>, <<71100,71101>>, <<71103,71104>>, <<71132,71133>>,
  <<71219,71226>>, <<71229,71229>>, <<71231,71232>>, <<71339,71339>>,
  <<71341,71341>>, <<71344,71349>>, <<71351,71351>>, <<71453,71455>>,
  <<71458,71461>>, <<71463,71467>>, <<71727,71735>>, <<71737,71738>>,
  <<71995,71996>>, <<71998,71998>>, <<72003,72003>>, <<72148,72151>>,
  <<72154,72155>>, <<72160,72160>>, <<72193,72202>>, <<72243,72248>>,
  <<72251,72254>>, <<72263,72263>>, <<72273,72278>>, <<72281,72283>>,
  <<72330,72342>>, <<72344,72345>>, <<72752,72758>>, <<72760,72765>>,
  <<72767,72767>>, <<72850,72871>>, <<72874,72880>>, <<72882,72883>>,
  <<72885,72886>>, <<73009,73014>>, <<73018,73018>>, <<73020,73021>>,
  <<73023,73029>>, <<73031,73031>>, <<73104,73105>>, <<73109,73109>>,
  <<73111,73111>>, <<73459,73460>>, <<78896,78904>>, <<92912,92916>>,
  <<92976,92982>>, <<92992,92995>>, <<94031,94031>>, <<94095,94111>>,
  <<94176,94177>>, <<94179,94180>>, <<110576,110579>>, <<110581,110587>>,
  <<110589,110590>>, <<113821,113822>>, <<113824,113827>>,
  <<118528,118573>>, <<118576,118598>>, <<119143,119145>>,
  <<119155,119170>>, <<119173,119179>>, <<119210,119213>>,
  <<119362,119364>>, <<121344,121398>>, <<121403,121452>>,
  <<121461,121461>>, <<121476,121476>>, <<121499,121503>>,
  <<121505,121519>>, <<122880,122886>>, <<122888,122904>>,
  <<122907,122913>>, <<122915,122916>>, <<122918,122922>>,
  <<123184,123197>>, <<123566,123566>>, <<123628,123631>>,
  <<125136,125142>>, <<125252,125259>>, <<127995,127999>>,
  <<917505,917505>>, <<917536,917631>>, <<917760,917999>> }

\* Cased code points above U+007F that are not Case_Ignorable, as ranges
CasedRanges == {
  <<170,170>>, <<181,181>>, <<186,186>>, <<192,214>>, <<216,246>>,
  <<248,442>>, <<444,447>>, <<452,659>>, <<661,687>>, <<880,883>>,
  <<886,887>>, <<891,893>>, <<895,895>>, <<902,902>>, <<904,906>>,
  <<908,908>>, <<910,929>>, <<931,1013>>, <<1015,1153>>, <<1162,1327>>,
  <<1329,1366>>, <<1376,1416>>, <<4256,4293>>, <<4295,4295>>, <<4301,4301>>,
  <<4304,4346>>, <<4349,4351>>, <<5024,5109>>, <<5112,5117>>, <<7296,7304>>,
  <<7312,7354>>, <<7357,7359>>, <<7424,7467>>, <<7531,7543>>, <<7545,7578>>,
  <<7680,7957>>, <<7960,7965>>, <<7968,8005>>, <<8008,8013>>, <<8016,8023>>,
  <<8025,8025>>, <<8027,8027>>, <<8029,8029>>, <<8031,8061>>, <<8064,8116>>,
  <<8118,8124>>, <<8126,8126>>, <<8130,8132>>, <<8134,8140>>, <<8144,8147>>,
  <<8150,8155>>, <<8160,8172>>, <<8178,8180>>, <<8182,8188>>, <<8450,8450>>,
  <<8455,8455>>, <<8458,8467>>, <<8469,8469>>, <<8473,8477>>, <<8484,8484>>,
  <<8486,8486>>, <<8488,8488>>, <<8490,8493>>, <<8495,8500>>, <<8505,8505>>,
  <<8508,8511>>, <<8517,8521>>, <<8526,8526>>, <<8544,8575>>, <<8579,8580>>,
  <<9398,9449>>, <<11264,11387>>, <<11390,11492>>, <<11499,11502>>,
  <<11506,11507>>, <<11520,11557>>, <<11559,11559>>, <<11565,11565>>,
  <<42560,42605>>, <<42624,42651>>, <<42786,42863>>, <<42865,42887>>,
  <<42891,42894>>, <<42896,42954>>, <<42960,42961>>, <<42963,42963>>,
  <<42965,42969>>, <<42997,42998>>, <<43002,43002>>, <<43824,43866>>,
  <<43872,43880>>, <<43888,43967>>, <<64256,64262>>, <<64275,64279>>,
  <<65313,65338>>, <<65345,65370>>, <<66560,66639>>, <<66736,66771>>,
  <<66776,66811>>, <<66928,66938>>, <<66940,66954>>, <<66956,66962>>,
  <<66964,66965>>, <<66967,66977>>, <<66979,66993>>, <<66995,67001>>,
  <<67003,67004>>, <<68736,68786>>, <<68800,68850>>, <<71840,71903>>,
  <<93760,93823>>, <<119808,119892>>, <<119894,119964>>, <<119966,119967>>,
  <<119970,119970>>, <<119973,119974>>, <<119977,119980>>,
  <<119982,119993>>, <<119995,119995>>, <<119997,120003>>,
  <<120005,120069>>, <<120071,120074>>, <<120077,120084>>,
  <<120086,120092>>, <<120094,120121>>, <<120123,120126>>,
  <<120128,120132>>, <<120134,120134>>, <<120138,120144>>,
  <<120146,120485>>, <<120488,120512>>, <<120514,120538>>,
  <<120540,120570>>, <<120572,120596>>, <<120598,120628>>,
  <<120630,120654>>, <<120656,120686>>, <<120688,120712>>,
  <<120714,120744>>, <<120746,120770>>, <<120772,120779>>,
  <<122624,122633>>, <<122635,122654>>, <<125184,125251>>,
  <<127280,127305>>, <<127312,127337>>, <<127344,127369>> }

\* _PyUnicode_IsCaseIgnorable; below U+0080: ' . : ^ `
IsCaseIgnorable(c) ==
  IF c < 128 THEN c \in {39, 46, 58, 94, 96}
  ELSE \E r \in CaseIgnorableRanges : r[1] <= c /\ c <= r[2]

\* _PyUnicode_IsCased of a code point that is not Case_Ignorable; below
\* U+0080: A-Z and a-z
IsCased(c) ==
  IF c < 128 THEN c \in (65..90) \cup (97..122)
  ELSE \E r \in CasedRanges : r[1] <= c /\ c <= r[2]

\* nearest position before i (after i: d = 1) that is not Case_Ignorable;
\* 0 or Len(s) + 1 when there is none
RECURSIVE SkipIgnorable(_, _, _)
SkipIgnorable(s, i, d) ==
  IF i < 1 \/ i > Len(s) THEN i
  ELSE IF IsCaseIgnorable(s[i]) THEN SkipIgnorable(s, i + d, d)
  ELSE i

\* handle_capital_sigma: U+03A3 at position i is a final sigma when a cased
\* letter precedes it and none follows, Case_Ignorable ones skipped
FinalSigma(s, i) ==
  LET j == SkipIgnorable(s, i - 1, -1)
      k == SkipIgnorable(s, i + 1, 1)
  IN /\ j >= 1
     /\ IsCased(s[j])
     /\ (k > Len(s) \/ ~IsCased(s[k]))

\* the lower case of s[i]: A-Z, U+03A3 by its context, U+0130 to two code
\* points, the runs, and every other code point unchanged
LowerChar(s, i) ==
  LET c == s[i]
  IN IF c < 128 THEN (IF 65 <= c /\ c <= 90 THEN <<c + 32>> ELSE <<c>>)
     ELSE IF c = 931 THEN (IF FinalSigma(s, i) THEN <<962>> ELSE <<963>>)
     ELSE IF c = 304 THEN <<105, 775>>
     ELSE IF \E r \in LowerRuns :
               r[1] <= c /\ c <= r[2] /\ (c - r[1]) % r[3] = 0
     THEN <<c + (CHOOSE r \in LowerRuns :
                   r[1] <= c /\ c <= r[2] /\ (c - r[1]) % r[3] = 0)[4]>>
     ELSE <<c>>

RECURSIVE LowerFrom(_, _)
LowerFrom(s, i) ==
  IF i > Len(s) THEN <<>> ELSE LowerChar(s, i) \o LowerFrom(s, i + 1)

\* str.lower()
Lower(s) == LowerFrom(s, 1)

RECURSIVE LStrip(_)
LStrip(s) ==
  IF s /= <<>> /\ IsSpace(Head(s)) THEN LStrip(Tail(s)) ELSE s

RECURSIVE RStrip(_)
RStrip(s) ==
  IF s /= <<>> /\ IsSpace(s[Len(s)])
  THEN RStrip(SubSeq(s, 1, Len(s) - 1))
  ELSE s

\* str.strip()
Strip(s) == RStrip(LStrip(s))

\* sep.join(parts)
RECURSIVE Join(_, _)
Join(parts, sep) ==
  IF parts = <<>> THEN <<>>
  ELSE IF Len(parts) = 1 THEN parts[1]
  ELSE parts[1] \o sep \o Join(Tail(parts), sep)

----------------------------------------------------------------------------
(* split_sentences: re.split(r'(?<=[.!?])\s+', text.strip()) *)

\* . ! ?
IsTerminal(c) == c \in {46, 33, 63}

\* end (exclusive, 1-based) of the \s+ match starting at i
RECURSIVE SkipSpaces(_, _)
SkipSpaces(t, i) ==
  IF i <= Len(t) /\ IsSpace(t[i]) THEN SkipSpaces(t, i + 1) ELSE i

\* a match of (?<=[.!?])\s+ starts at position i
CutAt(t, i) == i > 1 /\ i <= Len(t) /\ IsSpace(t[i]) /\ IsTerminal(t[i - 1])

\* re.split scans left to right; cur is the segment being collected
RECURSIVE SplitFrom(_, _, _)
SplitFrom(t, i, cur) ==
  IF i > Len(t) THEN <<cur>>
  ELSE IF CutAt(t, i) THEN <<cur>> \o SplitFrom(t, SkipSpaces(t, i), <<>>)
  ELSE SplitFrom(t, i + 1, Append(cur, t[i]))

split_sentences_nostrip(text) == SplitFrom(text, 1, <<>>)

split_sentences(text) == SplitFrom(Strip(text), 1, <<>>)

----------------------------------------------------------------------------
(* difflib.SequenceMatcher(None, a, b): no junk predicate, autojunk left   *)
(* at its default of True.  a[i] of Python is a[i + 1] here.                *)

\* __chain_b: the autojunk heuristic applies to a b of this many elements
AutojunkLen == 200

\* __chain_b, bpopular: for a b of AutojunkLen elements or more, the
\* elements that occur more than len(b) // 100 + 1 times; they are deleted
\* from b2j
bpopular(b) ==
  IF Len(b) >= AutojunkLen
  THEN {elt \in {b[j] : j \in 1..Len(b)} :
          Cardinality({j \in 1..Len(b) : b[j] = elt}) > (Len(b) \div 100) + 1}
  ELSE {}

\* find_longest_match, inner loop: j is in b2j[a[i]]
InB2j(a, b, popular, i, j) == a[i + 1] = b[j + 1] /\ b[j + 1] \notin popular

\* j2len of find_longest_match: length k of the common run of elements of
\* b2j ending at a[i], b[j] inside the window a[alo:], b[blo:]; the run
\* stops at the window's edge or at the first pair the inner loop skips
RunLen(a, b, popular, alo, blo, i, j) ==
  IF ~InB2j(a, b, popular, i, j) THEN 0
  ELSE LET lim == IF i - alo < j - blo THEN i - alo + 1 ELSE j - blo + 1
       IN CHOOSE k \in 1..lim :
            /\ k = lim \/ ~InB2j(a, b, popular, i - k, j - k)
            /\ \A u \in 1..(k - 1) : InB2j(a, b, popular, i - u, j - u)

\* find_longest_match, first extension loop: the match grows to the left
\* over equal elements, popular ones included, up to the window's edge
ExtendBack(a, b, alo, blo, m) ==
  LET lim == IF m[1] - alo < m[2] - blo THEN m[1] - alo ELSE m[2] - blo
      d == CHOOSE x \in 0..lim :
             /\ x = lim \/ a[m[1] - x] /= b[m[2] - x]
             /\ \A u \in 0..(x - 1) : a[m[1] - u] = b[m[2] - u]
  IN <<m[1] - d, m[2] - d, m[3] + d>>

\* find_longest_match, second extension loop: the match grows to the right
ExtendForward(a, b, ahi, bhi, m) ==
  LET i == m[1] + m[3]
      j == m[2] + m[3]
      lim == IF ahi - i < bhi - j THEN ahi - i ELSE bhi - j
      d == CHOOSE x \in 0..lim :
             /\ x = lim \/ a[i + x + 1] /= b[j + x + 1]
             /\ \A u \in 0..(x - 1) : a[i + u + 1] = b[j + u + 1]
  IN <<m[1], m[2], m[3] + d>>

\* find_longest_match: the first run of elements of b2j, scanning i then j
\* upwards, to reach the greatest length, (alo, blo, 0) when there is none;
\* then the two extension loops.  The greatest length is reached where a
\* run ends, so only those (i, j) are looked at.  The loops over junk
\* elements never run: bjunk is empty.
find_longest_match(a, b, alo, ahi, blo, bhi) ==
  LET popular == bpopular(b)
      Js == {j \in blo..(bhi - 1) : b[j + 1] \notin popular}
      Ends == {e \in (alo..(ahi - 1)) \X Js :
                 /\ InB2j(a, b, popular, e[1], e[2])
                 /\ ~(/\ e[1] + 1 < ahi
                      /\ e[2] + 1 < bhi
                      /\ InB2j(a, b, popular, e[1] + 1, e[2] + 1))}
      len == [e \in Ends |-> RunLen(a, b, popular, alo, blo, e[1], e[2])]
      Sizes == {len[e] : e \in Ends}
      bestsize == CHOOSE k \in Sizes : \A l \in Sizes : l <= k
      Long == {e \in Ends : len[e] = bestsize}
      Is == {e[1] - bestsize + 1 : e \in Long}
      besti == CHOOSE x \in Is : \A y \in Is : x <= y
      Jsi == {e[2] - bestsize + 1 : e \in {f \in Long : f[1] - bestsize + 1 = besti}}
      bestj == CHOOSE x \in Jsi : \A y \in Jsi : x <= y
      best == IF Ends = {} THEN <<alo, blo, 0>>
              ELSE <<besti, bestj, bestsize>>
  IN ExtendForward(a, b, ahi, bhi, ExtendBack(a, b, alo, blo, best))

\* get_matching_blocks, before the merge: the match of the window, then the
\* windows left and right of it; listed in increasing order (the sort)
RECURSIVE MatchingBlocksIn(_, _, _, _, _, _)
MatchingBlocksIn(a, b, alo, ahi, blo, bhi) ==
  LET m == find_longest_match(a, b, alo, ahi, blo, bhi)
      i == m[1]
      j == m[2]
      k == m[3]
  IN IF k = 0 THEN <<>>
     ELSE (IF alo < i /\ blo < j
           THEN MatchingBlocksIn(a, b, alo, i, blo, j) ELSE <<>>)
          \o <<m>> \o
          (IF i + k < ahi /\ j + k < bhi
           THEN MatchingBlocksIn(a, b, i + k, ahi, j + k, bhi) ELSE <<>>)

\* get_matching_blocks: adjacent blocks are merged
RECURSIVE MergeAdjacent(_, _)
MergeAdjacent(blocks, cur) ==
  IF blocks = <<>> THEN (IF cur[3] > 0 THEN <<cur>> ELSE <<>>)
  ELSE LET nb == Head(blocks)
       IN IF cur[1] + cur[3] = nb[1] /\ cur[2] + cur[3] = nb[2]
          THEN MergeAdjacent(Tail(blocks), <<cur[1], cur[2], cur[3] + nb[3]>>)
          ELSE (IF cur[3] > 0 THEN <<cur>> ELSE <<>>)
               \o MergeAdjacent(Tail(blocks), nb)

\* get_matching_blocks: the merged blocks and the sentinel (la, lb, 0)
get_matching_blocks(a, b) ==
  MergeAdjacent(MatchingBlocksIn(a, b, 0, Len(a), 0, Len(b)), <<0, 0, 0>>)
  \o <<<<Len(a), Len(b), 0>>>>

\* get_opcodes: (tag, i1, i2, j1, j2) for the gap before each block and the block
RECURSIVE OpcodesFrom(_, _, _)
OpcodesFrom(blocks, i, j) ==
  IF blocks = <<>> THEN <<>>
  ELSE LET ai == Head(blocks)[1]
           bj == Head(blocks)[2]
           size == Head(blocks)[3]
           gap == IF i < ai /\ j < bj THEN <<<<"replace", i, ai, j, bj>>>>
                  ELSE IF i < ai THEN <<<<"delete", i, ai, j, bj>>>>
                  ELSE IF j < bj THEN <<<<"insert", i, ai, j, bj>>>>
                  ELSE <<>>
           eq == IF size > 0
                 THEN <<<<"equal", ai, ai + size, bj, bj + size>>>>
                 ELSE <<>>
       IN gap \o eq \o OpcodesFrom(Tail(blocks), ai + size, bj + size)

get_opcodes(a, b) == OpcodesFrom(get_matching_blocks(a, b), 0, 0)

RECURSIVE ChangedOfReplaceOnly(_, _)
ChangedOfReplaceOnly(ops, polished) ==
  IF ops = <<>> THEN <<>>
  ELSE LET op == Head(ops)
       IN (IF op[1] = "replace" THEN SubSeq(polished, op[4] + 1, op[5]) ELSE <<>>)
          \o ChangedOfReplaceOnly(Tail(ops), polished)

\* lines 105-108: polished_sentences[j1:j2] of every opcode that is not equal
RECURSIVE ChangedOf(_, _)
ChangedOf(ops, polished) ==
  IF ops = <<>> THEN <<>>
  ELSE LET op == Head(ops)
       IN (IF op[1] /= "equal" THEN SubSeq(polished, op[4] + 1, op[5]) ELSE <<>>)
          \o ChangedOf(Tail(ops), polished)

----------------------------------------------------------------------------
(* Categories and highlight_sentences *)

\* "grammar", "spelling", "tone", "formatting", "other"
grammar == <<103, 114, 97, 109, 109, 97, 114>>

spelling == <<115, 112, 101, 108, 108, 105, 110, 103>>

tone == <<116, 111, 110, 101>>

formatting == <<102, 111, 114, 109, 97, 116, 116, 105, 110, 103>>

other == <<111, 116, 104, 101, 114>>

\* line 122: the list the category is checked against
CategoryList == {grammar, spelling, tone, formatting, other}

\* lines 45-49: "background-color:#", the start of every style
BackgroundColor ==
  <<98, 97, 99, 107, 103, 114, 111, 117, 110, 100, 45, 99, 111, 108, 111, 114,
    58, 35>>

\* lines 44-50: the highlights dict, a style "background-color:#rrggbb;" each
highlights ==
  [c \in CategoryList |->
     BackgroundColor \o
     (IF c = grammar THEN <<102, 102, 99, 99, 99, 99>>           \* ffcccc
      ELSE IF c = spelling THEN <<99, 99, 101, 53, 102, 102>>     \* cce5ff
      ELSE IF c = tone THEN <<102, 102, 102, 51, 99, 100>>         \* fff3cd
      ELSE IF c = formatting THEN <<100, 53, 102, 53, 101, 51>>   \* d5f5e3
      ELSE <<101, 56, 100, 52, 102, 56>>)                         \* e8d4f8
     \o <<59>>]

\* the dict d with d[k] = v
Put(d, k, v) == [x \in (DOMAIN d) \cup {k} |-> IF x = k THEN v ELSE d[x]]

\* line 57: f"<span style='{style}'>{sent}</span>"
\* <span style='
SpanOpen == <<60, 115, 112, 97, 110, 32, 115, 116, 121, 108, 101, 61, 39>>

\* '>
SpanOpenEnd == <<39, 62>>

\* </span>
SpanClose == <<60, 47, 115, 112, 97, 110, 62>>

Span(style, sent) == SpanOpen \o style \o SpanOpenEnd \o sent \o SpanClose

HighlightOneUntrimmedKey(sent, cats) ==
  IF sent \in DOMAIN cats /\ cats[sent] /= <<>>
  THEN Span(IF cats[sent] \in DOMAIN highlights
            THEN highlights[cats[sent]] ELSE <<>>, sent)
  ELSE sent

\* lines 54-58: one turn of the loop; categories.get(sent.strip()) is None
\* or the stored category, and an empty category is falsy
HighlightOne(sent, cats) ==
  LET key == Strip(sent)
  IN IF key \in DOMAIN cats /\ cats[key] /= <<>>
     THEN Span(IF cats[key] \in DOMAIN highlights
               THEN highlights[cats[key]] ELSE <<>>, sent)
     ELSE sent

\* lines 42-59
highlight_sentences(sentences, cats) ==
  Join([i \in 1..Len(sentences) |-> HighlightOne(sentences[i], cats)], <<32>>)

----------------------------------------------------------------------------
(* The LLM calls *)

\* lines 87-98: the polish prompt embeds the style and the draft
PolishPrompt(style, draft) ==
  [kind |-> "polish", style |-> style, text |-> draft, max_output_tokens |-> 600]

\* lines 113-121: the classify prompt embeds the sentence
ClassifyPrompt(sent) ==
  [kind |-> "classify", style |-> "", text |-> sent, max_output_tokens |-> 5]

\* line 75: response.text.strip()
gemini_generate(text) == Strip(text)

classify_category_nofallback(text) == Lower(gemini_generate(text))

\* lines 121-123
classify_category(text) ==
  LET category == Lower(gemini_generate(text))
  IN IF category \notin CategoryList THEN other ELSE category

----------------------------------------------------------------------------
(* Inputs *)

\* line 27
styles == {"Professional", "Friendly", "Light-hearted", "Concise", "Empathetic"}

SeqsUpTo(S, n) == UNION {[1..k -> S] : k \in 0..n}

\* the sentences "a." and "b."
SentencePool == {<<97, 46>>, <<98, 46>>}

\* what the user may type: up to MaxDraftSents sentences, nothing, blanks
\* (space and newline; U+000B and U+1680), " a.\n"
Drafts ==
  {Join(ss, <<32>>) : ss \in SeqsUpTo(SentencePool, MaxDraftSents)}
  \cup {<<32, 10>>, <<11, 5760>>, <<32, 97, 46, 10>>}

\* what the LLM may answer to the polish prompt: the draft's sentences and
\* a rewritten one ("c."), in any arrangement, and "\na. \nb.\n"
PolishedPool == SentencePool \cup {<<99, 46>>}

PolishResponses ==
  {Join(ss, <<32>>) : ss \in SeqsUpTo(PolishedPool, MaxPolishedSents)}
  \cup {<<10, 97, 46, 32, 10, 98, 46, 10>>}

\* what the LLM may answer to the classify prompt: U+1680 "Tone\n", to be
\* trimmed and lower-cased, the malformed "Grammar!!", nothing
ClassifyResponses ==
  { <<5760, 84, 111, 110, 101, 10>>,
    <<71, 114, 97, 109, 109, 97, 114, 33, 33>>,
    <<>> }

EnvKey == "GEMINI_API_KEY"

\* the credential unset, set to the empty string, set to "k"
Environments ==
  { <<>>, [k \in {EnvKey} |-> <<>>], [k \in {EnvKey} |-> <<107>>] }

----------------------------------------------------------------------------
(* The script *)

Idle ==
  /\ configured = FALSE
  /\ shown = {}
  /\ style_choice = ""
  /\ user_input = <<>>
  /\ pressed = FALSE
  /\ polished_text = <<>>
  /\ orig_sentences = <<>>
  /\ polished_sentences = <<>>
  /\ opcodes = <<>>
  /\ changed_sentences = <<>>
  /\ categories = <<>>
  /\ idx = 1
  /\ polished_html = <<>>
  /\ calls = <<>>
  /\ responses = <<>>
  /\ outstanding = {}
  /\ nfailed = 0

Init ==
  /\ env \in Environments
  /\ pc = "start"
  /\ Idle

CheckKeyNoneOnly ==
  /\ pc = "start"
  /\ IF EnvKey \notin DOMAIN env
     THEN shown' = {"error"} /\ pc' = "stopped" /\ UNCHANGED configured
     ELSE configured' = TRUE /\ pc' = "page" /\ UNCHANGED shown
  /\ UNCHANGED <<env, style_choice, user_input, pressed, polished_text,
                 orig_sentences, polished_sentences, opcodes, changed_sentences,
                 categories, idx, polished_html, calls, responses, outstanding,
                 nfailed>>

\* lines 10-16: os.getenv, st.error and st.stop, or the client is configured
CheckKey ==
  /\ pc = "start"
  /\ IF EnvKey \notin DOMAIN env \/ env[EnvKey] = <<>>
     THEN shown' = {"error"} /\ pc' = "stopped" /\ UNCHANGED configured
     ELSE configured' = TRUE /\ pc' = "page" /\ UNCHANGED shown
  /\ UNCHANGED <<env, style_choice, user_input, pressed, polished_text,
                 orig_sentences, polished_sentences, opcodes, changed_sentences,
                 categories, idx, polished_html, calls, responses, outstanding,
                 nfailed>>

\* lines 21-37: title, selectbox, columns, text area and their values
RenderPage ==
  /\ pc = "page"
  /\ shown' = shown \cup {"form"}
  /\ style_choice' \in styles
  /\ user_input' \in Drafts
  /\ pc' = "button"
  /\ UNCHANGED <<env, configured, pressed, polished_text, orig_sentences,
                 polished_sentences, opcodes, changed_sentences, categories, idx,
                 polished_html, calls, responses, outstanding, nfailed>>

\* line 80: st.button returns False, the script ends
NoPress ==
  /\ pc = "button"
  /\ pressed' = FALSE
  /\ pc' = "done"
  /\ UNCHANGED <<env, configured, shown, style_choice, user_input,
                 polished_text, orig_sentences, polished_sentences, opcodes,
                 changed_sentences, categories, idx, polished_html, calls,
                 responses, outstanding, nfailed>>

PressPolishEmptyOnly ==
  /\ pc = "button"
  /\ pressed' = TRUE
  /\ IF user_input = <<>>
     THEN /\ shown' = shown \cup {"warning"}
          /\ pc' = "done"
          /\ UNCHANGED <<calls, outstanding>>
     ELSE /\ calls' = Append(calls, PolishPrompt(style_choice, user_input))
          /\ outstanding' = outstanding \cup {Len(calls) + 1}
          /\ pc' = "polish_wait"
          /\ UNCHANGED shown
  /\ UNCHANGED <<env, configured, style_choice, user_input, polished_text,
                 orig_sentences, polished_sentences, opcodes, changed_sentences,
                 categories, idx, polished_html, responses, nfailed>>

\* lines 80-98: the button is pressed; a blank draft gets the warning, any
\* other draft is sent in the polish prompt
PressPolish ==
  /\ pc = "button"
  /\ pressed' = TRUE
  /\ IF Strip(user_input) = <<>>
     THEN /\ shown' = shown \cup {"warning"}
          /\ pc' = "done"
          /\ UNCHANGED <<calls, outstanding>>
     ELSE /\ calls' = Append(calls, PolishPrompt(style_choice, user_input))
          /\ outstanding' = outstanding \cup {Len(calls) + 1}
          /\ pc' = "polish_wait"
          /\ UNCHANGED shown
  /\ UNCHANGED <<env, configured, style_choice, user_input, polished_text,
                 orig_sentences, polished_sentences, opcodes, changed_sentences,
                 categories, idx, polished_html, responses, nfailed>>

\* lines 98-111: the polish call returns; both texts are split and diffed
PolishReturn ==
  /\ pc = "polish_wait"
  /\ \E text \in PolishResponses :
       /\ responses' = Append(responses, text)
       /\ polished_text' = gemini_generate(text)
  /\ orig_sentences' = split_sentences(user_input)
  /\ polished_sentences' = split_sentences(polished_text')
  /\ opcodes' = get_opcodes(orig_sentences', polished_sentences')
  /\ changed_sentences' = ChangedOf(opcodes', polished_sentences')
  /\ outstanding' = outstanding \ {Len(calls)}
  /\ categories' = <<>>
  /\ idx' = 1
  /\ pc' = "classify_loop"
  /\ UNCHANGED <<env, configured, shown, style_choice, user_input, pressed,
                 polished_html, calls, nfailed>>

ClassifyIssueDistinct ==
  /\ pc = "classify_loop"
  /\ idx <= Len(changed_sentences)
  /\ IF Strip(changed_sentences[idx]) \in DOMAIN categories
     THEN idx' = idx + 1 /\ UNCHANGED <<calls, outstanding, pc>>
     ELSE /\ calls' = Append(calls, ClassifyPrompt(changed_sentences[idx]))
          /\ outstanding' = outstanding \cup {Len(calls) + 1}
          /\ pc' = "classify_wait"
          /\ UNCHANGED idx
  /\ UNCHANGED <<env, configured, shown, style_choice, user_input, pressed,
                 polished_text, orig_sentences, polished_sentences, opcodes,
                 changed_sentences, categories, polished_html, responses,
                 nfailed>>

\* lines 112-121: the next changed sentence is sent in the classify prompt
ClassifyIssue ==
  /\ pc = "classify_loop"
  /\ idx <= Len(changed_sentences)
  /\ calls' = Append(calls, ClassifyPrompt(changed_sentences[idx]))
  /\ outstanding' = outstanding \cup {Len(calls) + 1}
  /\ pc' = "classify_wait"
  /\ UNCHANGED <<env, configured, shown, style_choice, user_input, pressed,
                 polished_text, orig_sentences, polished_sentences, opcodes,
                 changed_sentences, categories, idx, polished_html, responses,
                 nfailed>>

\* lines 121-124: the classify call returns; the category is stored
ClassifyReturn ==
  /\ pc = "classify_wait"
  /\ \E text \in ClassifyResponses :
       /\ responses' = Append(responses, text)
       /\ categories' = Put(categories, Strip(changed_sentences[idx]),
                            classify_category(text))
  /\ outstanding' = outstanding \ {Len(calls)}
  /\ idx' = idx + 1
  /\ pc' = "classify_loop"
  /\ UNCHANGED <<env, configured, shown, style_choice, user_input, pressed,
                 polished_text, orig_sentences, polished_sentences, opcodes,
                 changed_sentences, polished_html, calls, nfailed>>

GenerateRaisesRetry ==
  /\ pc \in {"polish_wait", "classify_wait"}
  /\ nfailed < 2
  /\ nfailed' = nfailed + 1
  /\ calls' = Append(calls, calls[Len(calls)])
  /\ outstanding' = {Len(calls) + 1}
  /\ UNCHANGED <<env, pc, configured, shown, style_choice, user_input, pressed,
                 polished_text, orig_sentences, polished_sentences, opcodes,
                 changed_sentences, categories, idx, polished_html, responses>>

\* lines 71-75: generate_content or response.text raises; nothing catches it
GenerateRaises ==
  /\ pc \in {"polish_wait", "classify_wait"}
  /\ nfailed' = nfailed + 1
  /\ outstanding' = outstanding \ {Len(calls)}
  /\ pc' = "failed"
  /\ UNCHANGED <<env, configured, shown, style_choice, user_input, pressed,
                 polished_text, orig_sentences, polished_sentences, opcodes,
                 changed_sentences, categories, idx, polished_html, calls,
                 responses>>

RenderEarly ==
  /\ pc \in {"classify_loop", "classify_wait"}
  /\ idx >= Len(changed_sentences)
  /\ polished_html' = highlight_sentences(polished_sentences, categories)
  /\ shown' = shown \cup {"panel", "legend"}
  /\ pc' = "done"
  /\ UNCHANGED <<env, configured, style_choice, user_input, pressed,
                 polished_text, orig_sentences, polished_sentences, opcodes,
                 changed_sentences, categories, idx, calls, responses,
                 outstanding, nfailed>>

\* lines 127-159: the loop is over; highlight, right panel, legend
Render ==
  /\ pc = "classify_loop"
  /\ idx > Len(changed_sentences)
  /\ polished_html' = highlight_sentences(polished_sentences, categories)
  /\ shown' = shown \cup {"panel", "legend"}
  /\ pc' = "done"
  /\ UNCHANGED <<env, configured, style_choice, user_input, pressed,
                 polished_text, orig_sentences, polished_sentences, opcodes,
                 changed_sentences, categories, idx, calls, responses,
                 outstanding, nfailed>>

Next ==
  \/ CheckKey
  \/ RenderPage
  \/ NoPress
  \/ PressPolish
  \/ PolishReturn
  \/ ClassifyIssue
  \/ ClassifyReturn
  \/ GenerateRaises
  \/ Render

Spec == Init /\ [][Next]_vars

----------------------------------------------------------------------------
(* split_sentences on its own: every text of up to MaxLen characters *)

\* a . ? space newline U+00A0
SplitAlphabet == {97, 46, 63, 32, 10, 160}

InitSplit ==
  /\ env = <<>>
  /\ pc = "call_split"
  /\ configured = FALSE /\ shown = {} /\ style_choice = "" /\ pressed = FALSE
  /\ user_input \in SeqsUpTo(SplitAlphabet, MaxLen)
  /\ polished_text = <<>> /\ orig_sentences = <<>> /\ polished_sentences = <<>>
  /\ opcodes = <<>> /\ changed_sentences = <<>> /\ categories = <<>> /\ idx = 1
  /\ polished_html = <<>> /\ calls = <<>> /\ responses = <<>>
  /\ outstanding = {} /\ nfailed = 0

\* line 101
CallSplit ==
  /\ pc = "call_split"
  /\ orig_sentences' = split_sentences(user_input)
  /\ pc' = "returned"
  /\ UNCHANGED <<env, configured, shown, style_choice, user_input, pressed,
                 polished_text, polished_sentences, opcodes, changed_sentences,
                 categories, idx, polished_html, calls, responses, outstanding,
                 nfailed>>

NextSplit == CallSplit

SpecSplit == InitSplit /\ [][NextSplit]_vars

----------------------------------------------------------------------------
(* The change detector on its own: every pair of sentence sequences of up   *)
(* to MaxSeq sentences                                                      *)

\* "a.", "b.", "c."
DiffPool == {<<97, 46>>, <<98, 46>>, <<99, 46>>}

SentenceSeqs(S, n) == UNION {[1..k -> S] : k \in 1..n}

Rep(x, n) == [k \in 1..n |-> x]

\* sentence sequences around the length at which the autojunk heuristic
\* starts: "a." 199 times; 200 times; with "b." before; with "b." after;
\* with "b. c." after; 200 sentences of which 3 are "b." (as many as b2j
\* keeps) and 4 are "c." (popular)
LongSeqs ==
  { Rep(<<97, 46>>, AutojunkLen - 1),
    Rep(<<97, 46>>, AutojunkLen),
    << <<98, 46>> >> \o Rep(<<97, 46>>, AutojunkLen - 1),
    Rep(<<97, 46>>, AutojunkLen - 1) \o << <<98, 46>> >>,
    Rep(<<97, 46>>, AutojunkLen - 2) \o << <<98, 46>>, <<99, 46>> >>,
    [k \in 1..AutojunkLen |->
       IF k \in {1, 50, AutojunkLen} THEN <<98, 46>>
       ELSE IF k \in {2, 51, 100, AutojunkLen - 1} THEN <<99, 46>>
       ELSE <<97, 46>>] }

InitDiff ==
  /\ env = <<>>
  /\ pc = "call_diff"
  /\ configured = FALSE /\ shown = {} /\ style_choice = "" /\ pressed = FALSE
  /\ user_input = <<>> /\ polished_text = <<>>
  /\ orig_sentences \in SentenceSeqs(DiffPool, MaxSeq) \cup LongSeqs
  /\ polished_sentences \in SentenceSeqs(DiffPool, MaxSeq) \cup LongSeqs
  /\ opcodes = <<>> /\ changed_sentences = <<>> /\ categories = <<>> /\ idx = 1
  /\ polished_html = <<>> /\ calls = <<>> /\ responses = <<>>
  /\ outstanding = {} /\ nfailed = 0

\* lines 104-108
CallDiff ==
  /\ pc = "call_diff"
  /\ opcodes' = get_opcodes(orig_sentences, polished_sentences)
  /\ changed_sentences' = ChangedOf(opcodes', polished_sentences)
  /\ pc' = "returned"
  /\ UNCHANGED <<env, configured, shown, style_choice, user_input, pressed,
                 polished_text, orig_sentences, polished_sentences, categories,
                 idx, polished_html, calls, responses, outstanding, nfailed>>

NextDiff == CallDiff

SpecDiff == InitDiff /\ [][NextDiff]_vars

----------------------------------------------------------------------------
(* highlight_sentences on its own: every sequence of up to MaxHlSents       *)
(* sentences, one of them untrimmed, and every mapping of the trimmed texts  *)

\* "a.", "b.", " a. "
HlPool == {<<97, 46>>, <<98, 46>>, <<32, 97, 46, 32>>}

HlKeys == {<<97, 46>>, <<98, 46>>}

Mappings == UNION {[K -> CategoryList] : K \in SUBSET HlKeys}

InitHighlight ==
  /\ env = <<>>
  /\ pc = "call_highlight"
  /\ configured = FALSE /\ shown = {} /\ style_choice = "" /\ pressed = FALSE
  /\ user_input = <<>> /\ polished_text = <<>> /\ orig_sentences = <<>>
  /\ polished_sentences \in SentenceSeqs(HlPool, MaxHlSents)
  /\ categories \in Mappings
  /\ opcodes = <<>> /\ changed_sentences = <<>> /\ idx = 1
  /\ polished_html = <<>> /\ calls = <<>> /\ responses = <<>>
  /\ outstanding = {} /\ nfailed = 0

\* line 127
CallHighlight ==
  /\ pc = "call_highlight"
  /\ polished_html' = highlight_sentences(polished_sentences, categories)
  /\ pc' = "returned"
  /\ UNCHANGED <<env, configured, shown, style_choice, user_input, pressed,
                 polished_text, orig_sentences, polished_sentences, opcodes,
                 changed_sentences, categories, idx, calls, responses,
                 outstanding, nfailed>>

NextHighlight == CallHighlight

SpecHighlight == InitHighlight /\ [][NextHighlight]_vars

----------------------------------------------------------------------------
(* Properties *)

\* the elements of f at the positions of keep, in order
RECURSIVE Pick(_, _, _)
Pick(f, keep, i) ==
  IF i > Len(f) THEN <<>>
  ELSE (IF i \in keep THEN <<f[i]>> ELSE <<>>) \o Pick(f, keep, i + 1)

IsBlank(t) == \A i \in 1..Len(t) : t[i] \in Whitespace

KeyAbsent == EnvKey \notin DOMAIN env \/ env[EnvKey] = <<>>

\* C1: whatever text the LLM returns for a classification request, every
\* value of the sentence->category mapping is one of the five categories,
\* and a response that, trimmed and lower-cased, is none of the five is
\* stored as "other" (the last response for a sentence text is the one kept).
C1_CategoryAlwaysValid ==
  /\ \A k \in DOMAIN categories :
       categories[k] \in {grammar, spelling, tone, formatting, other}
  /\ \A n \in 2..Len(responses) :
       LET key == Strip(calls[n].text)
           norm == Lower(Strip(responses[n]))
       IN (\A m \in (n + 1)..Len(responses) : Strip(calls[m].text) /= key)
          => /\ key \in DOMAIN categories
             /\ norm \notin {grammar, spelling, tone, formatting, other}
                  => categories[key] = other
             /\ norm \in {grammar, spelling, tone, formatting, other}
                  => categories[key] = norm

C1_Witness ==
  /\ pc = "done"
  /\ "panel" \in shown
  /\ \E n \in 2..Len(responses) :
       /\ responses[n] = <<71, 114, 97, 109, 109, 97, 114, 33, 33>>
       /\ n = Len(responses)
       /\ categories[Strip(calls[n].text)] = other
  /\ \E n \in 2..Len(responses) : responses[n] = <<>>
  /\ \E n \in 2..Len(responses) :
       /\ responses[n] = <<5760, 84, 111, 110, 101, 10>>
       /\ categories[Strip(calls[n].text)] = tone

\* C2: a press of Polish with an empty or whitespace-only draft shows the
\* warning and ends the request: no LLM call is issued, neither the
\* polished panel nor the legend is rendered.
C2_BlankDraftWarnsOnly ==
  (pressed /\ IsBlank(user_input))
  => /\ "warning" \in shown
     /\ pc = "done"
     /\ calls = <<>>
     /\ outstanding = {}
     /\ "panel" \notin shown
     /\ "legend" \notin shown

C2_Witness ==
  /\ pressed
  /\ user_input = <<11, 5760>>
  /\ "warning" \in shown

\* C3 as stated: a completed request has made 1 + N calls, N the number of
\* distinct (trimmed) changed sentence texts.
C3_CallsPerDistinctSentence ==
  (pc = "done" /\ "panel" \in shown)
  => Len(calls) = 1 + Cardinality({Strip(changed_sentences[i]) :
                                     i \in 1..Len(changed_sentences)})

\* C3 amended: when a request with a non-blank draft has ended, its calls
\* are the polish call and then one classification call for each element of
\* the change set, duplicates included, in its order, up to the first call
\* that failed: 1 + M calls, M the length of the change set, when none
\* failed, and the failed call as the last one otherwise.
C3_CallsPerChangedSentence ==
  (pressed /\ ~IsBlank(user_input) /\ pc \in {"done", "failed"})
  => /\ Len(calls) \in 1..(1 + Len(changed_sentences))
     /\ calls[1].kind = "polish"
     /\ \A n \in 2..Len(calls) :
          /\ calls[n].kind = "classify"
          /\ calls[n].text = changed_sentences[n - 1]
     /\ pc = "done" => Len(calls) = 1 + Len(changed_sentences)
     /\ pc = "failed" => Len(calls) = Len(responses) + 1

C3_Witness ==
  /\ pc = "done"
  /\ "panel" \in shown
  /\ Len(changed_sentences) = 2
  /\ changed_sentences[1] = changed_sentences[2]
  /\ Len(calls) = 3

\* C7: with the API key unset or empty, the error is shown and the script
\* stops: the client is never configured, no form, button or panel is
\* rendered and no LLM call is issued.
C7_MissingKeyHalts ==
  (KeyAbsent /\ pc /= "start")
  => /\ pc = "stopped"
     /\ shown = {"error"}
     /\ ~configured
     /\ ~pressed
     /\ calls = <<>>
     /\ outstanding = {}

C7_Witness ==
  /\ pc = "stopped"
  /\ EnvKey \in DOMAIN env
  /\ env[EnvKey] = <<>>
  /\ shown = {"error"}

\* C8: the LLM calls of a request are issued one at a time: at most one is
\* outstanding, every earlier call has returned when one is issued, the
\* polish call is the first, the classification calls follow the order of
\* the change set, and the panel is rendered only after the last
\* classification call has returned.
C8_CallsSequential ==
  /\ Cardinality(outstanding) <= 1
  /\ outstanding \subseteq {Len(calls)}
  /\ Len(responses) + nfailed + Cardinality(outstanding) = Len(calls)
  /\ calls /= <<>> => calls[1].kind = "polish"
  /\ \A n \in 2..Len(calls) :
       /\ Len(responses) >= n - 1
       /\ n - 1 <= Len(changed_sentences)
       /\ calls[n] = ClassifyPrompt(changed_sentences[n - 1])
  /\ "panel" \in shown
       => /\ outstanding = {}
          /\ Len(responses) = Len(calls)
          /\ Len(calls) = 1 + Len(changed_sentences)

C8_Witness ==
  /\ "panel" \in shown
  /\ Len(calls) = 4
  /\ Len(responses) = 4
  /\ changed_sentences[1] /= changed_sentences[2]

\* C9: a failed LLM call ends the request: the failure is not caught, the
\* call is not retried, no further call is issued and neither the panel
\* nor the legend is rendered.
C9_FailureEndsRequest ==
  /\ [](nfailed > 0
         => /\ pc = "failed"
            /\ nfailed = 1
            /\ outstanding = {}
            /\ Len(calls) = Len(responses) + 1
            /\ "panel" \notin shown
            /\ "legend" \notin shown)
  /\ [][nfailed > 0 => (calls' = calls /\ shown' = shown /\ pc' = pc)]_vars

C9_Witness ==
  /\ pc = "failed"
  /\ nfailed = 1
  /\ Len(calls) = 2
  /\ Len(changed_sentences) = 3

\* positions (0-based) of the polished sequence inside a non-equal opcode
ChangedPositions ==
  {j \in 0..(Len(polished_sentences) - 1) :
     \E n \in 1..Len(opcodes) :
       opcodes[n][1] /= "equal" /\ opcodes[n][4] <= j /\ j < opcodes[n][5]}

\* C10: in the rendered output a polished sentence is wrapped in a
\* highlight span if and only if its position lies in a non-equal opcode
\* span, also when the same text occurs at a changed and an unchanged
\* position.
C10_OnlyChangedPositionsWrapped ==
  (pc = "done" /\ "panel" \in shown)
  => polished_html =
       Join([p \in 1..Len(polished_sentences) |->
               IF (p - 1) \in ChangedPositions
               THEN Span(highlights[categories[Strip(polished_sentences[p])]],
                         polished_sentences[p])
               ELSE polished_sentences[p]],
            <<32>>)

\* <span style='background-color:
ClaimedSpanStart ==
  <<60, 115, 112, 97, 110, 32, 115, 116, 121, 108, 101, 61, 39, 98, 97, 99,
    107, 103, 114, 111, 117, 110, 100, 45, 99, 111, 108, 111, 114, 58>>

\* ;'>
ClaimedSpanMid == <<59, 39, 62>>

\* </span>
ClaimedSpanEnd == <<60, 47, 115, 112, 97, 110, 62>>

\* the color the claim gives for each category
ClaimedColor(c) ==
  CASE c = grammar -> <<35, 102, 102, 99, 99, 99, 99>>       \* #ffcccc
    [] c = spelling -> <<35, 99, 99, 101, 53, 102, 102>>      \* #cce5ff
    [] c = tone -> <<35, 102, 102, 102, 51, 99, 100>>          \* #fff3cd
    [] c = formatting -> <<35, 100, 53, 102, 53, 101, 51>>    \* #d5f5e3
    [] c = other -> <<35, 101, 56, 100, 52, 102, 56>>         \* #e8d4f8

\* C4: highlight_sentences wraps a sentence in the span of its category's
\* color exactly when the sentence's trimmed text is a key of the mapping,
\* passes every other sentence through unchanged, and joins the pieces,
\* one per input sentence and in input order, with a single space.
C4_HighlightWrapsMappedSentences ==
  pc = "returned"
  => polished_html =
       Join([p \in 1..Len(polished_sentences) |->
               LET sent == polished_sentences[p]
               IN IF Strip(sent) \in DOMAIN categories
                  THEN ClaimedSpanStart \o ClaimedColor(categories[Strip(sent)])
                       \o ClaimedSpanMid \o sent \o ClaimedSpanEnd
                  ELSE sent],
            <<32>>)

C4_Witness ==
  /\ pc = "returned"
  /\ DOMAIN categories = {<<97, 46>>}
  /\ categories[<<97, 46>>] = formatting
  /\ polished_sentences = << <<98, 46>>, <<32, 97, 46, 32>>, <<97, 46>> >>
  \* b. <span style='background-color:#d5f5e3;'> a. </span> <span
  \*  style='background-color:#d5f5e3;'>a.</span>
  /\ polished_html =
       <<98, 46, 32, 60, 115, 112, 97, 110, 32, 115, 116, 121, 108, 101, 61, 39,
         98, 97, 99, 107, 103, 114, 111, 117, 110, 100, 45, 99, 111, 108,
         111, 114, 58, 35, 100, 53, 102, 53, 101, 51, 59, 39, 62, 32, 97,
         46, 32, 60, 47, 115, 112, 97, 110, 62, 32, 60, 115, 112, 97, 110,
         32, 115, 116, 121, 108, 101, 61, 39, 98, 97, 99, 107, 103, 114,
         111, 117, 110, 100, 45, 99, 111, 108, 111, 114, 58, 35, 100, 53,
         102, 53, 101, 51, 59, 39, 62, 97, 46, 60, 47, 115, 112, 97, 110,
         62>>

\* positions (0-based) of the polished sequence inside an equal opcode
EqualPositions ==
  {j \in 0..(Len(polished_sentences) - 1) :
     \E n \in 1..Len(opcodes) :
       opcodes[n][1] = "equal" /\ opcodes[n][4] <= j /\ j < opcodes[n][5]}

\* C5: the change set is the polished elements at the positions no equal
\* opcode covers, in polished order and with duplicates; every polished
\* position lies in exactly one opcode span; identical sequences give an
\* empty change set.
C5_ChangeSetIsNonEqualSpans ==
  pc = "returned"
  => LET Changed ==
           {j + 1 : j \in (0..(Len(polished_sentences) - 1)) \ EqualPositions}
     IN /\ Len(changed_sentences) = Cardinality(Changed)
        /\ \A p \in Changed :
             changed_sentences[Cardinality({q \in Changed : q <= p})]
               = polished_sentences[p]
        /\ \A j \in 0..(Len(polished_sentences) - 1) :
             Cardinality({n \in 1..Len(opcodes) :
                            opcodes[n][4] <= j /\ j < opcodes[n][5]}) = 1
        /\ orig_sentences = polished_sentences => changed_sentences = <<>>

C5_Witness ==
  /\ pc = "returned"
  /\ orig_sentences = << <<98, 46>>, <<99, 46>>, <<97, 46>> >>
  /\ polished_sentences = << <<98, 46>> >> \o Rep(<<97, 46>>, AutojunkLen - 1)
  /\ opcodes = << <<"equal", 0, 1, 0, 1>>,
                  <<"replace", 1, 3, 1, AutojunkLen>> >>
  /\ changed_sentences = Rep(<<97, 46>>, AutojunkLen - 1)

\* first position of the whitespace run that holds position i of t
RECURSIVE RunStart(_, _)
RunStart(t, i) ==
  IF i > 1 /\ t[i - 1] \in Whitespace THEN RunStart(t, i - 1) ELSE i

\* position i of t lies in a whitespace run that follows '.', '!' or '?'
InCutRun(t, i) ==
  /\ t[i] \in Whitespace
  /\ RunStart(t, i) > 1
  /\ t[RunStart(t, i) - 1] \in {46, 33, 63}

\* t with every whitespace run that follows '.', '!' or '?' made one space
CollapseCuts(t) ==
  Pick([i \in 1..Len(t) |-> IF InCutRun(t, i) THEN 32 ELSE t[i]],
       {i \in 1..Len(t) : ~InCutRun(t, i) \/ RunStart(t, i) = i},
       1)

\* C6: split_sentences returns a non-empty sequence, one more segment than
\* there are '.', '!' or '?' followed by whitespace in the trimmed text;
\* the segments joined by one space are the trimmed text with each
\* whitespace run at a cut made one space; a text without such a cut gives
\* the one-element sequence, the empty text a single empty segment.
C6_SplitAtTerminalWhitespace ==
  pc = "returned"
  => LET t == Strip(user_input)
         cuts == {i \in 1..(Len(t) - 1) :
                    t[i] \in {46, 33, 63} /\ t[i + 1] \in Whitespace}
     IN /\ Len(orig_sentences) >= 1
        /\ Len(orig_sentences) = 1 + Cardinality(cuts)
        /\ Join(orig_sentences, <<32>>) = CollapseCuts(t)
        /\ cuts = {} => orig_sentences = <<t>>
        /\ user_input = <<>> => orig_sentences = << <<>> >>

C6_Witness ==
  /\ pc = "returned"
  /\ user_input = <<32, 63, 160, 10, 97>>
  /\ orig_sentences = << <<63>>, <<97>> >>

====
